---- MODULE Spec2Model ----
(***************************************************************************)
(* Vote ledger of the voting platform: the battle-vote and profile-vote    *)
(* routes of server.js over the Profile and Vote collections.  Every await *)
(* of a handler is one step, so requests interleave exactly where the      *)
(* event loop can switch between them.  Mongoose's save() writes the       *)
(* modified paths of the in-memory document ($set of the new value, $push  *)
(* of new array elements); it is not an atomic increment.                  *)
(***************************************************************************)
EXTENDS Integers, Sequences, FiniteSets, TLC

\* ---------------------------------------------------------------- bounds
ReqLimit == 2        \* battle requests received in one behaviour of Spec
ProfileReqLimit == 3 \* profile votes received in one behaviour of SpecProfile
SeqReqLimit == 2     \* requests received in one behaviour of SpecSeq
MaxTicks == 3        \* clock advances in one behaviour of SpecSeq
MaxSeed == 150       \* largest seeded chadVotes / jeetVotes of SpecPct
BoardReqLimit == 2   \* battle votes received in one behaviour of SpecBoard
MaxBoardTicks == 2   \* clock advances in one behaviour of SpecBoard
MaxSeedScore == 1    \* largest seeded score of profile B in SpecBoard
ClientVoteLimit == 2 \* votes submitted in one behaviour of SpecClient
FaultReqLimit == 2   \* requests received in one behaviour of SpecFault
LikeReqLimit == 4    \* like requests received in one behaviour of SpecLike
MaxCount == 999      \* largest seeded chadVotes / jeetVotes of SpecDetail
MaxSeedVotes == 1    \* largest seeded votes of SpecClient

\* ------------------------------------------------------ program constants
DedupWindowMs == 60000

\* the clock counts seconds: a duration the source gives in milliseconds
Seconds(ms) == ms \div 1000

\* ------------------------------------------------------------ identities
Profiles == {"A", "B"}            \* ids of the stored Profile documents
UnknownId == "X"                  \* a well-formed id of no stored profile
Comments == {"c1"}                \* ids of the stored Comment documents
CommentIds == Comments \cup {UnknownId}
ProfileIds == Profiles \cup {UnknownId}
Users == {"u1", "u2"}             \* stored User documents
Tokens == {"none", "bad", "u1", "u2", "gone"}
VoteTypes == {"chad", "jeet", "other"}
Slots == {"r1", "r2"}             \* requests the server may have in flight
SlotNo(r) == IF r = "r1" THEN 1 ELSE 2
TickSteps == {30}

VARIABLES profiles, votes, now, req, voting, client, detail, comments,
          started, ticks, pre, tally

vars ==
    <<profiles, votes, now, req, voting, client, detail, comments,
      started, ticks, pre, tally>>

\* ------------------------------------------------------------- documents
NewProfile(c, j) ==
    [votes |-> 0, score |-> 0, battleWins |-> 0, battleLosses |-> 0,
     chadVotes |-> c, jeetVotes |-> j, votesHistory |-> << >>]

NoRes == [status |-> 0, error |-> "", data |-> << >>]

IdleReq ==
    [pc |-> "idle", route |-> "none", userId |-> "", winnerId |-> "",
     loserId |-> "", profileId |-> "", voteType |-> "",
     dateFilter |-> << >>, limit |-> 0,
     commentId |-> "", comment |-> << >>, liked |-> FALSE,
     vote |-> << >>, winner |-> << >>, loser |-> << >>, profile |-> << >>,
     res |-> NoRes]

\* the response ends the request: its documents go out of scope
Respond(r, status, error, data) ==
    [IdleReq EXCEPT !.pc = "done", !.route = r.route,
              !.res = [status |-> status, error |-> error, data |-> data]]

\* a new request takes the first slot that holds no request in flight
FreeSlot(r) ==
    /\ req[r].pc \in {"idle", "done"}
    /\ \A q \in Slots : req[q].pc \in {"idle", "done"} => SlotNo(r) <= SlotNo(q)

findById(id) == IF id \in Profiles THEN <<profiles[id]>> ELSE << >>

\* ------------------------------------------------------------ middleware
\* the middleware without the check that the token's user still exists
authMiddlewareNoUserCheck(token) ==
    IF token \in Users \cup {"gone"} THEN <<token>> ELSE << >>

\* jwt.verify and User.findById: the user the token names, or none
authMiddleware(token) == IF token \in Users THEN <<token>> ELSE << >>

\* --------------------------------------------------- POST /api/votes/battle
\* the query without its timestamp condition
existingVoteNoWindow(userId, winnerId, loserId) ==
    {i \in 1..Len(votes) :
        /\ votes[i].voterId = userId
        /\ \/ votes[i].winnerId = winnerId /\ votes[i].loserId = loserId
           \/ votes[i].winnerId = loserId /\ votes[i].loserId = winnerId}

\* the query without its second $or branch
existingVoteSameOrder(userId, winnerId, loserId) ==
    {i \in 1..Len(votes) :
        /\ votes[i].voterId = userId
        /\ votes[i].winnerId = winnerId /\ votes[i].loserId = loserId
        /\ votes[i].timestamp >= now - Seconds(DedupWindowMs)}

existingVote(userId, winnerId, loserId) ==
    {i \in 1..Len(votes) :
        /\ votes[i].voterId = userId
        /\ \/ votes[i].winnerId = winnerId /\ votes[i].loserId = loserId
           \/ votes[i].winnerId = loserId /\ votes[i].loserId = winnerId
        /\ votes[i].timestamp >= now - Seconds(DedupWindowMs)}

BattleRequest(r, token, winnerId, loserId) ==
    /\ FreeSlot(r)
    /\ IF authMiddleware(token) = << >>
         THEN req' = [req EXCEPT ![r] =
                        Respond([IdleReq EXCEPT !.route = "battle"],
                                401, "Please authenticate", << >>)]
         ELSE req' = [req EXCEPT ![r] =
                        [IdleReq EXCEPT !.pc = "findExisting",
                                        !.route = "battle",
                                        !.userId = authMiddleware(token)[1],
                                        !.winnerId = winnerId,
                                        !.loserId = loserId]]
    /\ UNCHANGED <<profiles, votes, now>>

BattleFindExisting(r) ==
    /\ req[r].pc = "findExisting"
    /\ IF existingVote(req[r].userId, req[r].winnerId, req[r].loserId) # {}
         THEN req' = [req EXCEPT ![r] =
                        Respond(@, 400, "Already voted for this battle", << >>)]
         ELSE req' = [req EXCEPT ![r].pc = "saveVote",
                                 ![r].vote = <<[voterId |-> req[r].userId,
                                                winnerId |-> req[r].winnerId,
                                                loserId |-> req[r].loserId,
                                                timestamp |-> now]>>]
    /\ UNCHANGED <<profiles, votes, now>>

\* the insert replacing the collection instead of adding to it
BattleSaveVoteOverwrite(r) ==
    /\ req[r].pc = "saveVote"
    /\ votes' = <<req[r].vote[1]>>
    /\ req' = [req EXCEPT ![r].pc = "findWinner"]
    /\ UNCHANGED <<profiles, now>>

BattleSaveVote(r) ==
    /\ req[r].pc = "saveVote"
    /\ votes' = Append(votes, req[r].vote[1])
    /\ req' = [req EXCEPT ![r].pc = "findWinner"]
    /\ UNCHANGED <<profiles, now>>

BattleFindWinner(r) ==
    /\ req[r].pc = "findWinner"
    /\ req' = [req EXCEPT ![r].pc = "findLoser",
                          ![r].winner = findById(req[r].winnerId)]
    /\ UNCHANGED <<profiles, votes, now>>

\* the in-memory updates of the two documents follow the second lookup
BattleFindLoser(r) ==
    /\ req[r].pc = "findLoser"
    /\ LET winner == req[r].winner
           loser == findById(req[r].loserId)
       IN IF winner # << >> /\ loser # << >>
            THEN req' = [req EXCEPT
                   ![r].pc = "saveWinner",
                   ![r].winner =
                       <<[winner[1] EXCEPT
                            !.votes = @ + 1,
                            !.score = @ + 1,
                            !.battleWins = @ + 1,
                            !.votesHistory =
                                Append(@, [voterId |-> req[r].userId,
                                           timestamp |-> now])]>>,
                   ![r].loser =
                       <<[loser[1] EXCEPT !.battleLosses = @ + 1]>>]
            \* res.json reads winner._id / loser._id of null: TypeError
            ELSE req' = [req EXCEPT ![r] =
                           Respond(@, 500, "Failed to submit vote", << >>)]
    /\ UNCHANGED <<profiles, votes, now>>

\* the winner update without winner.score += 1
BattleSaveWinnerNoScore(r) ==
    /\ req[r].pc = "saveWinner"
    /\ LET id == req[r].winnerId
           winner == req[r].winner[1]
       IN profiles' = [profiles EXCEPT
             ![id].votes = winner.votes,
             ![id].battleWins = winner.battleWins,
             ![id].votesHistory =
                 Append(@, winner.votesHistory[Len(winner.votesHistory)])]
    /\ req' = [req EXCEPT ![r].pc = "saveLoser"]
    /\ UNCHANGED <<votes, now>>

BattleSaveWinner(r) ==
    /\ req[r].pc = "saveWinner"
    /\ LET id == req[r].winnerId
           winner == req[r].winner[1]
       IN profiles' = [profiles EXCEPT
             ![id].votes = winner.votes,
             ![id].score = winner.score,
             ![id].battleWins = winner.battleWins,
             ![id].votesHistory =
                 Append(@, winner.votesHistory[Len(winner.votesHistory)])]
    /\ req' = [req EXCEPT ![r].pc = "saveLoser"]
    /\ UNCHANGED <<votes, now>>

\* the loser update also counting the vote for the loser
BattleSaveLoserCountsVote(r) ==
    /\ req[r].pc = "saveLoser"
    /\ profiles' = [profiles EXCEPT
          ![req[r].loserId].battleLosses = req[r].loser[1].battleLosses,
          ![req[r].loserId].votes = @ + 1]
    /\ req' = [req EXCEPT ![r] =
                 Respond(@, 200, "",
                         <<req[r].winner[1].votes, req[r].winner[1].score,
                           req[r].loser[1].votes, req[r].loser[1].score>>)]
    /\ UNCHANGED <<votes, now>>

BattleSaveLoser(r) ==
    /\ req[r].pc = "saveLoser"
    /\ profiles' = [profiles EXCEPT
          ![req[r].loserId].battleLosses = req[r].loser[1].battleLosses]
    /\ req' = [req EXCEPT ![r] =
                 Respond(@, 200, "",
                         <<req[r].winner[1].votes, req[r].winner[1].score,
                           req[r].loser[1].votes, req[r].loser[1].score>>)]
    /\ UNCHANGED <<votes, now>>

\* the catch block answering as if the vote had been recorded
BattleStorageErrorSwallowed(r) ==
    /\ req[r].pc \in {"findExisting", "saveVote", "findWinner", "findLoser",
                      "saveWinner", "saveLoser"}
    /\ req' = [req EXCEPT ![r] = Respond(@, 200, "", << >>)]
    /\ UNCHANGED <<profiles, votes, now>>

\* a storage call of the handler rejects: the catch block answers 500
BattleStorageError(r) ==
    /\ req[r].pc \in {"findExisting", "saveVote", "findWinner", "findLoser",
                      "saveWinner", "saveLoser"}
    /\ req' = [req EXCEPT ![r] = Respond(@, 500, "Failed to submit vote", << >>)]
    /\ UNCHANGED <<profiles, votes, now>>

\* ----------------------------------------------- POST /api/votes/profile/:id
\* Math.round((count / total) * 100) in IEEE-754 doubles.  The product is
\* exact to well under 1/(2*total), so it rounds like the exact quotient
\* except when that quotient is exactly k/2 for odd k: there the double
\* product of the ratio k/200 is k/2 itself or its neighbour, and for the
\* ratios of FloatLowK it is the neighbour below, which rounds down.
FloatLowK == {29, 57, 113, 115}

MathRoundPercent(count, total) ==
    IF (200 * count) % total = 0 /\ ((200 * count) \div total) \in FloatLowK
      THEN (((200 * count) \div total) - 1) \div 2
      ELSE (200 * count + total) \div (2 * total)

\* the percentages without the 50 / 50 default of an empty profile
PercentagesNoDefault(chadVotes, jeetVotes) ==
    LET total == chadVotes + jeetVotes
    IN IF total > 0
         THEN <<MathRoundPercent(chadVotes, total),
                100 - MathRoundPercent(chadVotes, total)>>
         ELSE <<0, 0>>

\* the percentages without the block that makes them add up to 100
PercentagesUncorrected(chadVotes, jeetVotes) ==
    LET total == chadVotes + jeetVotes
    IN IF total > 0
         THEN <<MathRoundPercent(chadVotes, total),
                MathRoundPercent(jeetVotes, total)>>
         ELSE <<50, 50>>

Percentages(chadVotes, jeetVotes) ==
    LET total == chadVotes + jeetVotes
        chadPercentage == MathRoundPercent(chadVotes, total)
        jeetPercentage == MathRoundPercent(jeetVotes, total)
    IN IF total > 0
         THEN IF chadPercentage + jeetPercentage # 100
                THEN IF chadVotes >= jeetVotes
                       THEN <<100 - jeetPercentage, jeetPercentage>>
                       ELSE <<chadPercentage, 100 - chadPercentage>>
                ELSE <<chadPercentage, jeetPercentage>>
         ELSE <<50, 50>>

ProfileRequest(r, profileId, voteType) ==
    /\ FreeSlot(r)
    /\ req' = [req EXCEPT ![r] =
                 [IdleReq EXCEPT !.pc = "findProfile",
                                 !.route = "profile",
                                 !.profileId = profileId,
                                 !.voteType = voteType]]
    /\ UNCHANGED <<profiles, votes, now>>

\* the lookup rejecting a voteType that is neither chad nor jeet
ProfileFindRejectsOther(r) ==
    /\ req[r].pc = "findProfile"
    /\ LET profile == findById(req[r].profileId)
       IN IF profile = << >>
            THEN req' = [req EXCEPT ![r] =
                           Respond(@, 404, "Profile not found", << >>)]
            ELSE IF req[r].voteType \notin {"chad", "jeet"}
              THEN req' = [req EXCEPT ![r] =
                             Respond(@, 400, "Invalid vote type", << >>)]
              ELSE req' = [req EXCEPT
                     ![r].pc = "saveProfile",
                     ![r].profile =
                         IF req[r].voteType = "chad"
                           THEN <<[profile[1] EXCEPT !.chadVotes = @ + 1]>>
                           ELSE <<[profile[1] EXCEPT !.jeetVotes = @ + 1]>>]
    /\ UNCHANGED <<profiles, votes, now>>

\* the lookup with the chad branch incrementing jeetVotes
ProfileFindChadAsJeet(r) ==
    /\ req[r].pc = "findProfile"
    /\ LET profile == findById(req[r].profileId)
       IN IF profile = << >>
            THEN req' = [req EXCEPT ![r] =
                           Respond(@, 404, "Profile not found", << >>)]
            ELSE req' = [req EXCEPT
                   ![r].pc = "saveProfile",
                   ![r].profile =
                       IF req[r].voteType \in {"chad", "jeet"}
                         THEN <<[profile[1] EXCEPT !.jeetVotes = @ + 1]>>
                         ELSE profile]
    /\ UNCHANGED <<profiles, votes, now>>

\* the lookup with the jeet branch incrementing chadVotes
ProfileFindJeetAsChad(r) ==
    /\ req[r].pc = "findProfile"
    /\ LET profile == findById(req[r].profileId)
       IN IF profile = << >>
            THEN req' = [req EXCEPT ![r] =
                           Respond(@, 404, "Profile not found", << >>)]
            ELSE req' = [req EXCEPT
                   ![r].pc = "saveProfile",
                   ![r].profile =
                       IF req[r].voteType \in {"chad", "jeet"}
                         THEN <<[profile[1] EXCEPT !.chadVotes = @ + 1]>>
                         ELSE profile]
    /\ UNCHANGED <<profiles, votes, now>>

\* the lookup and the in-memory increment of the document it returned
ProfileFind(r) ==
    /\ req[r].pc = "findProfile"
    /\ LET profile == findById(req[r].profileId)
       IN IF profile = << >>
            THEN req' = [req EXCEPT ![r] =
                           Respond(@, 404, "Profile not found", << >>)]
            ELSE req' = [req EXCEPT
                   ![r].pc = "saveProfile",
                   ![r].profile =
                       IF req[r].voteType = "chad"
                         THEN <<[profile[1] EXCEPT !.chadVotes = @ + 1]>>
                         ELSE IF req[r].voteType = "jeet"
                           THEN <<[profile[1] EXCEPT !.jeetVotes = @ + 1]>>
                           ELSE profile]
    /\ UNCHANGED <<profiles, votes, now>>

\* save() writes the one path the handler assigned, then the response is
\* computed from the in-memory document
ProfileSave(r) ==
    /\ req[r].pc = "saveProfile"
    /\ LET id == req[r].profileId
           profile == req[r].profile[1]
       IN /\ profiles' =
               IF req[r].voteType = "chad"
                 THEN [profiles EXCEPT ![id].chadVotes = profile.chadVotes]
                 ELSE IF req[r].voteType = "jeet"
                   THEN [profiles EXCEPT ![id].jeetVotes = profile.jeetVotes]
                   ELSE profiles
          /\ req' = [req EXCEPT ![r] =
                       Respond(@, 200, "",
                               <<profile.chadVotes, profile.jeetVotes>>
                               \o Percentages(profile.chadVotes,
                                              profile.jeetVotes))]
    /\ UNCHANGED <<votes, now>>

ProfileStorageError(r) ==
    /\ req[r].pc \in {"findProfile", "saveProfile"}
    /\ req' = [req EXCEPT ![r] = Respond(@, 500, "Failed to record vote", << >>)]
    /\ UNCHANGED <<profiles, votes, now>>

\* ------------------------------------------------------ GET /api/leaderboard
Periods == {"day", "week", "month", "all"}
Limits == {1, 50}

\* the windows with those of day and week exchanged
WindowDayWeekSwapped(period) ==
    CASE period = "day" -> 7 * 24 * 60 * 60
      [] period = "week" -> 24 * 60 * 60
      [] period = "month" -> 30 * 24 * 60 * 60

\* the length of the period's window, in seconds
Window(period) ==
    CASE period = "day" -> 24 * 60 * 60
      [] period = "week" -> 7 * 24 * 60 * 60
      [] period = "month" -> 30 * 24 * 60 * 60

\* what a response carries of a profile document
Entry(p) == [id |-> p, votes |-> profiles[p].votes, score |-> profiles[p].score]

\* the filter is built from the clock when the request is received; any
\* other period leaves it empty
LeaderboardRequest(r, period, limit) ==
    /\ FreeSlot(r)
    /\ req' = [req EXCEPT ![r] =
                 [IdleReq EXCEPT
                    !.pc = "findBoard",
                    !.route = "leaderboard",
                    !.dateFilter = IF period \in {"day", "week", "month"}
                                     THEN <<now - Window(period)>>
                                     ELSE << >>,
                    !.limit = limit]]
    /\ UNCHANGED <<profiles, votes, now>>

\* Profile.find(dateFilter): the profiles with some votesHistory element
\* whose timestamp is $gte the filter's date, every profile when it is empty
Matching(dateFilter) ==
    IF dateFilter = << >>
      THEN Profiles
      ELSE {p \in Profiles :
              \E i \in 1..Len(profiles[p].votesHistory) :
                  profiles[p].votesHistory[i].timestamp >= dateFilter[1]}

\* sort({votes: -1, score: -1}): the documents in an order that does not
\* increase in (votes, score); the order of documents equal in both keys is
\* the one the storage engine happens to yield
SortedByVotesScore(S) ==
    {s \in [1..Cardinality(S) -> S] :
        \A i, j \in 1..Cardinality(S) :
            i < j => /\ s[i] # s[j]
                     /\ \/ profiles[s[i]].votes > profiles[s[j]].votes
                        \/ /\ profiles[s[i]].votes = profiles[s[j]].votes
                           /\ profiles[s[i]].score >= profiles[s[j]].score}

\* .limit(n): the first n documents
FirstN(s, n) == SubSeq(s, 1, IF n < Len(s) THEN n ELSE Len(s))

LeaderboardFind(r) ==
    /\ req[r].pc = "findBoard"
    /\ \E s \in SortedByVotesScore(Matching(req[r].dateFilter)) :
          req' = [req EXCEPT ![r] =
                    Respond(@, 200, "",
                            [i \in 1..Len(FirstN(s, req[r].limit)) |->
                                Entry(s[i])])]
    /\ UNCHANGED <<profiles, votes, now>>

LeaderboardStorageError(r) ==
    /\ req[r].pc = "findBoard"
    /\ req' = [req EXCEPT ![r] =
                 Respond(@, 500, "Failed to fetch leaderboard", << >>)]
    /\ UNCHANGED <<profiles, votes, now>>

\* ----------------------------------------- GET /api/profiles?sort=random
ProfilesRequest(r, limit) ==
    /\ FreeSlot(r)
    /\ req' = [req EXCEPT ![r] =
                 [IdleReq EXCEPT !.pc = "sample", !.route = "profiles",
                                 !.limit = limit]]
    /\ UNCHANGED <<profiles, votes, now>>

\* a sample that may pick a document again
SampleWithRepeats(size) ==
    [1..(IF size < Cardinality(Profiles) THEN size ELSE Cardinality(Profiles))
       -> Profiles]

\* $sample: size documents of the collection picked at random, all of them
\* when it holds fewer; the stage yields no document twice
Sample(size) ==
    {s \in [1..(IF size < Cardinality(Profiles)
                  THEN size ELSE Cardinality(Profiles)) -> Profiles] :
        \A i, j \in DOMAIN s : i # j => s[i] # s[j]}

ProfilesSample(r) ==
    /\ req[r].pc = "sample"
    /\ \E s \in Sample(req[r].limit) :
          req' = [req EXCEPT ![r] =
                    Respond(@, 200, "", [i \in DOMAIN s |-> Entry(s[i])])]
    /\ UNCHANGED <<profiles, votes, now>>

ProfilesStorageError(r) ==
    /\ req[r].pc = "sample"
    /\ req' = [req EXCEPT ![r] =
                 Respond(@, 500, "Failed to fetch profiles", << >>)]
    /\ UNCHANGED <<profiles, votes, now>>

\* -------------------------------------------------- script.js: VotingModule
\* appState.voting after construction; null is the empty tuple
AppState ==
    [totalVotes |-> 0, leftVotes |-> 0, rightVotes |-> 0, battleNumber |-> 1,
     userStreak |-> 0, hasVoted |-> FALSE,
     currentLeftProfile |-> << >>, currentRightProfile |-> << >>]

\* the rest of the page: the wallet, the stored token, the calls of
\* loadNewProfiles and handleVote waiting for their response, the pending
\* timers of setTimeout
ClientInit ==
    [isConnected |-> FALSE, token |-> "none", booted |-> FALSE,
     loads |-> {}, submits |-> {}, timers |-> 0]

ClientTokens == {"u1", "none"}
Awaited == client.loads \cup client.submits

\* a || b of JavaScript on numbers: 0 is falsy
OrElse(a, b) == IF a # 0 THEN a ELSE b

\* Math.round(x * 0.5) for a non-negative integer x
MathRoundHalf(x) == (x + 1) \div 2

connectWallet(token) ==
    /\ ~client.isConnected
    /\ client' = [client EXCEPT !.isConnected = TRUE, !.token = token]
    /\ UNCHANGED <<profiles, votes, now, req, voting>>

disconnectWallet ==
    /\ client.isConnected
    /\ client' = [client EXCEPT !.isConnected = FALSE]
    /\ UNCHANGED <<profiles, votes, now, req, voting>>

\* loadNewProfiles up to its await
loadNewProfiles(r) ==
    /\ r \notin Awaited
    /\ ProfilesRequest(r, 2)
    /\ UNCHANGED voting

initializeMainApp(r) ==
    /\ ~client.booted
    /\ loadNewProfiles(r)
    /\ client' = [client EXCEPT !.booted = TRUE, !.loads = @ \cup {r}]

\* the callback of setTimeout(() => this.loadNewProfiles(), VOTE_DELAY)
voteDelayElapsed(r) ==
    /\ client.timers > 0
    /\ loadNewProfiles(r)
    /\ client' = [client EXCEPT !.timers = @ - 1, !.loads = @ \cup {r}]

\* loadNewProfiles after its await; resetVotingState clears hasVoted only
loadNewProfilesReturn(r) ==
    /\ r \in client.loads /\ req[r].pc = "done"
    /\ client' = [client EXCEPT !.loads = @ \ {r}]
    /\ LET fetched == req[r].res.data
       IN IF req[r].res.status # 200 \/ Len(fetched) < 2
            THEN UNCHANGED voting
            ELSE LET totalVotes ==
                         OrElse(fetched[1].votes + fetched[2].votes, 100)
                     leftVotes ==
                         OrElse(fetched[1].votes, MathRoundHalf(totalVotes))
                 IN voting' = [voting EXCEPT
                      !.currentLeftProfile = <<fetched[1]>>,
                      !.currentRightProfile = <<fetched[2]>>,
                      !.hasVoted = FALSE,
                      !.totalVotes = totalVotes,
                      !.leftVotes = leftVotes,
                      !.rightVotes =
                          OrElse(fetched[2].votes, totalVotes - leftVotes),
                      !.battleNumber = @ + 1]
    /\ UNCHANGED <<profiles, votes, now, req>>

\* handleVote without its return while hasVoted is true
handleVoteIgnoresHasVoted(r, isLeft) ==
    /\ client.isConnected
    /\ voting.currentLeftProfile # << >>
    /\ voting.currentRightProfile # << >>
    /\ r \notin Awaited
    /\ LET winner == IF isLeft THEN voting.currentLeftProfile[1]
                               ELSE voting.currentRightProfile[1]
           loser == IF isLeft THEN voting.currentRightProfile[1]
                              ELSE voting.currentLeftProfile[1]
       IN BattleRequest(r, client.token, winner.id, loser.id)
    /\ voting' = [voting EXCEPT
         !.hasVoted = TRUE,
         !.leftVotes = IF isLeft THEN @ + 1 ELSE @,
         !.rightVotes = IF isLeft THEN @ ELSE @ + 1]
    /\ client' = [client EXCEPT !.submits = @ \cup {r}]

\* handleVote up to its await: the guards, the optimistic increment and the
\* request with the stored token
handleVote(r, isLeft) ==
    /\ client.isConnected
    /\ ~voting.hasVoted
    /\ voting.currentLeftProfile # << >>
    /\ voting.currentRightProfile # << >>
    /\ r \notin Awaited
    /\ LET winner == IF isLeft THEN voting.currentLeftProfile[1]
                               ELSE voting.currentRightProfile[1]
           loser == IF isLeft THEN voting.currentRightProfile[1]
                              ELSE voting.currentLeftProfile[1]
       IN BattleRequest(r, client.token, winner.id, loser.id)
    /\ voting' = [voting EXCEPT
         !.hasVoted = TRUE,
         !.leftVotes = IF isLeft THEN @ + 1 ELSE @,
         !.rightVotes = IF isLeft THEN @ ELSE @ + 1]
    /\ client' = [client EXCEPT !.submits = @ \cup {r}]

\* handleVote after its await: the success path or the catch block, whose
\* resetVotingState clears hasVoted only
handleVoteReturn(r) ==
    /\ r \in client.submits /\ req[r].pc = "done"
    /\ IF req[r].res.status = 200
         THEN /\ voting' = [voting EXCEPT !.userStreak = @ + 1]
              /\ client' = [client EXCEPT !.submits = @ \ {r},
                                          !.timers = @ + 1]
         ELSE /\ voting' = [voting EXCEPT !.hasVoted = FALSE]
              /\ client' = [client EXCEPT !.submits = @ \ {r}]
    /\ UNCHANGED <<profiles, votes, now, req>>

\* ------------------------------------------ POST /api/comments/:commentId/like
\* a Comment document as the schema creates it
NewComment == [likes |-> 0, likedBy |-> << >>]

\* Array.prototype.indexOf, counting from 1; 0 stands for the -1 of a miss
indexOf(array, x) ==
    IF \E i \in 1..Len(array) : array[i] = x
      THEN CHOOSE i \in 1..Len(array) :
              array[i] = x /\ \A k \in 1..(i - 1) : array[k] # x
      ELSE 0

\* array.splice(i, 1)
splice(array, i) == SubSeq(array, 1, i - 1) \o SubSeq(array, i + 1, Len(array))

LikeRequest(r, token, commentId) ==
    /\ FreeSlot(r)
    /\ IF authMiddleware(token) = << >>
         THEN req' = [req EXCEPT ![r] =
                        Respond([IdleReq EXCEPT !.route = "like"],
                                401, "Please authenticate", << >>)]
         ELSE req' = [req EXCEPT ![r] =
                        [IdleReq EXCEPT !.pc = "findComment",
                                        !.route = "like",
                                        !.userId = authMiddleware(token)[1],
                                        !.commentId = commentId]]
    /\ UNCHANGED <<comments, profiles, votes, now>>

\* the lookup with the unlike branch liking again
LikeFindAlwaysLikes(r) ==
    /\ req[r].pc = "findComment"
    /\ IF req[r].commentId \notin Comments
         THEN req' = [req EXCEPT ![r] =
                        Respond(@, 404, "Comment not found", << >>)]
         ELSE LET comment == comments[req[r].commentId]
              IN req' = [req EXCEPT
                     ![r].pc = "saveComment",
                     ![r].liked = TRUE,
                     ![r].comment =
                         <<[likes |-> comment.likes + 1,
                            likedBy |-> Append(comment.likedBy,
                                               req[r].userId)]>>]
    /\ UNCHANGED <<comments, profiles, votes, now>>

\* the lookup and the toggle on the document it returned
LikeFind(r) ==
    /\ req[r].pc = "findComment"
    /\ IF req[r].commentId \notin Comments
         THEN req' = [req EXCEPT ![r] =
                        Respond(@, 404, "Comment not found", << >>)]
         ELSE LET comment == comments[req[r].commentId]
                  userIndex == indexOf(comment.likedBy, req[r].userId)
              IN req' = [req EXCEPT
                     ![r].pc = "saveComment",
                     ![r].liked = (userIndex = 0),
                     ![r].comment =
                         IF userIndex > 0
                           THEN <<[likes |-> comment.likes - 1,
                                   likedBy |-> splice(comment.likedBy,
                                                      userIndex)]>>
                           ELSE <<[likes |-> comment.likes + 1,
                                   likedBy |-> Append(comment.likedBy,
                                                      req[r].userId)]>>]
    /\ UNCHANGED <<comments, profiles, votes, now>>

\* save() sets likes, pushes the new element of likedBy or sets the spliced
\* array
LikeSave(r) ==
    /\ req[r].pc = "saveComment"
    /\ LET id == req[r].commentId
           comment == req[r].comment[1]
       IN /\ comments' = [comments EXCEPT
                ![id].likes = comment.likes,
                ![id].likedBy = IF req[r].liked
                                  THEN Append(@, req[r].userId)
                                  ELSE comment.likedBy]
          /\ req' = [req EXCEPT ![r] =
                       Respond(@, 200, "", <<comment.likes, req[r].liked>>)]
    /\ UNCHANGED <<profiles, votes, now>>

LikeStorageError(r) ==
    /\ req[r].pc \in {"findComment", "saveComment"}
    /\ req' = [req EXCEPT ![r] =
                 Respond(@, 500, "Failed to update like", << >>)]
    /\ UNCHANGED <<comments, profiles, votes, now>>

\* -------------------------------------------- script.js: profile detail page
\* the text of a count element: the digits, or tenths of a thousand before K
formatVoteCount(count) ==
    IF count >= 1000
      THEN [n |-> (count + 50) \div 100, unit |-> "K"]
      ELSE [n |-> count, unit |-> ""]

\* parseFloat(text without K) * 1000, or parseInt(text) || 0
parseCount(text) == IF text.unit = "K" THEN text.n * 100 ELSE text.n

\* the chad / jeet elements of the page before a profile is shown
DetailInit ==
    [chadCount |-> formatVoteCount(0), jeetCount |-> formatVoteCount(0),
     chadPercent |-> 50, jeetPercent |-> 50, recomputed |-> FALSE]

\* showProfileDetail: the counts of the profile, the percentages passed in
showProfileDetail(p) ==
    /\ LET total == profiles[p].chadVotes + profiles[p].jeetVotes
           chadPercent == IF total > 0
                            THEN MathRoundPercent(profiles[p].chadVotes, total)
                            ELSE 50
       IN detail' = [chadCount |-> formatVoteCount(profiles[p].chadVotes),
                     jeetCount |-> formatVoteCount(profiles[p].jeetVotes),
                     chadPercent |-> chadPercent,
                     jeetPercent |-> 100 - chadPercent,
                     recomputed |-> FALSE]
    /\ UNCHANGED <<profiles, votes, now, req, voting, client, comments>>

\* the recomputation without the block that makes the two add up to 100
ClientPercentagesUncorrected(chadCount, jeetCount) ==
    LET total == chadCount + jeetCount
    IN IF total > 0
         THEN <<MathRoundPercent(chadCount, total),
                MathRoundPercent(jeetCount, total)>>
         ELSE <<50, 50>>

\* the percentages updateVotePercentages computes from the counts it parsed
ClientPercentages(chadCount, jeetCount) ==
    LET total == chadCount + jeetCount
        chadPercent == MathRoundPercent(chadCount, total)
        jeetPercent == MathRoundPercent(jeetCount, total)
    IN IF total > 0
         THEN IF chadPercent + jeetPercent # 100
                THEN IF chadPercent > jeetPercent
                       THEN <<100 - jeetPercent, jeetPercent>>
                       ELSE <<chadPercent, 100 - chadPercent>>
                ELSE <<chadPercent, jeetPercent>>
         ELSE <<50, 50>>

\* updateVotePercentages() called without arguments
updateVotePercentages ==
    /\ LET percentages == ClientPercentages(parseCount(detail.chadCount),
                                            parseCount(detail.jeetCount))
       IN detail' = [detail EXCEPT !.chadPercent = percentages[1],
                                   !.jeetPercent = percentages[2],
                                   !.recomputed = TRUE]
    /\ UNCHANGED <<profiles, votes, now, req, voting, client, comments>>

\* ------------------------------------------------------------------ clock
Tick(d) ==
    /\ now' = now + d
    /\ UNCHANGED <<profiles, votes, req>>

\* --------------------------------------------------------- specifications
InFlight(r) == req[r].pc \notin {"idle", "done"}
Quiet == \A r \in Slots : ~InFlight(r)
NoPre ==
    [profiles |-> << >>, votes |-> << >>, now |-> 0, call |-> << >>,
     failed |-> FALSE]
Counted == started' = started + 1

\* tally counts the chad and jeet votes answered with success
Tallied(r) ==
    tally' = IF req[r].voteType \in {"chad", "jeet"}
               THEN [tally EXCEPT ![req[r].profileId][req[r].voteType] = @ + 1]
               ELSE tally

InitDb ==
    /\ votes = << >>
    /\ now = 0
    /\ req = [r \in Slots |-> IdleReq]
    /\ started = 0
    /\ ticks = 0
    /\ pre = NoPre
    /\ tally = [p \in Profiles |-> [chad |-> 0, jeet |-> 0]]
    /\ voting = AppState
    /\ client = ClientInit
    /\ detail = DetailInit
    /\ comments = [c \in Comments |-> NewComment]

Init ==
    /\ profiles = [p \in Profiles |-> NewProfile(0, 0)]
    /\ InitDb

\* a step of a handler leaves the bookkeeping of the specifications alone
Internal == UNCHANGED <<voting, client, detail, comments, started, ticks, pre, tally>>

\* a storage call of the request pre describes was rejected
Failed ==
    /\ pre' = [pre EXCEPT !.failed = TRUE]
    /\ UNCHANGED <<voting, client, detail, comments, started, ticks, tally>>

\* Spec: battle votes, any interleaving of two requests in flight
Next ==
    \/ /\ started < ReqLimit
       /\ \E r \in Slots, t \in Tokens, w \in ProfileIds, l \in ProfileIds :
             BattleRequest(r, t, w, l)
       /\ Counted
       /\ UNCHANGED <<voting, client, detail, comments, ticks, pre, tally>>
    \/ \E r \in Slots : BattleFindExisting(r) /\ Internal
    \/ \E r \in Slots : BattleSaveVote(r) /\ Internal
    \/ \E r \in Slots : BattleFindWinner(r) /\ Internal
    \/ \E r \in Slots : BattleFindLoser(r) /\ Internal
    \/ \E r \in Slots : BattleSaveWinner(r) /\ Internal
    \/ \E r \in Slots : BattleSaveLoser(r) /\ Internal
    \/ \E r \in Slots : BattleStorageError(r) /\ Internal

Spec == Init /\ [][Next]_vars

\* SpecProfile: profile votes, any interleaving of two requests in flight
NextProfile ==
    \/ /\ started < ProfileReqLimit
       /\ \E r \in Slots, p \in ProfileIds, t \in VoteTypes :
             ProfileRequest(r, p, t)
       /\ Counted
       /\ UNCHANGED <<voting, client, detail, comments, ticks, pre, tally>>
    \/ \E r \in Slots : ProfileFind(r) /\ Internal
    \/ \E r \in Slots : ProfileSave(r) /\ Internal
    \/ \E r \in Slots : ProfileStorageError(r) /\ Internal

SpecProfile == Init /\ [][NextProfile]_vars

\* SpecSeq: requests of both routes one at a time, the clock advancing
\* between them (time passing before the first request or after the last
\* shows in no response); pre remembers the stored state and the call at
\* the start of the request
NextSeq ==
    \/ /\ started < SeqReqLimit /\ Quiet
       /\ \E r \in Slots, t \in Tokens, w \in ProfileIds, l \in ProfileIds :
             /\ BattleRequest(r, t, w, l)
             /\ pre' = [profiles |-> profiles, votes |-> votes, now |-> now,
                        call |-> <<req'[r].userId, req'[r].winnerId,
                                   req'[r].loserId>>,
                        failed |-> FALSE]
       /\ Counted
       /\ UNCHANGED <<voting, client, detail, comments, ticks, tally>>
    \/ /\ started < SeqReqLimit /\ Quiet
       /\ \E r \in Slots, p \in ProfileIds, t \in VoteTypes :
             /\ ProfileRequest(r, p, t)
             /\ pre' = [profiles |-> profiles, votes |-> votes, now |-> now,
                        call |-> <<p, t>>, failed |-> FALSE]
       /\ Counted
       /\ UNCHANGED <<voting, client, detail, comments, ticks, tally>>
    \/ \E r \in Slots : BattleFindExisting(r) /\ Internal
    \/ \E r \in Slots : BattleSaveVote(r) /\ Internal
    \/ \E r \in Slots : BattleFindWinner(r) /\ Internal
    \/ \E r \in Slots : BattleFindLoser(r) /\ Internal
    \/ \E r \in Slots : BattleSaveWinner(r) /\ Internal
    \/ \E r \in Slots : BattleSaveLoser(r) /\ Internal
    \/ \E r \in Slots : BattleStorageError(r) /\ Internal
    \/ \E r \in Slots : ProfileFind(r) /\ Internal
    \/ \E r \in Slots :
          ProfileSave(r) /\ Tallied(r)
          /\ UNCHANGED <<voting, client, detail, comments, started, ticks, pre>>
    \/ \E r \in Slots : ProfileStorageError(r) /\ Internal
    \/ /\ ticks < MaxTicks /\ Quiet
       /\ 0 < started /\ started < SeqReqLimit
       /\ \E d \in TickSteps : Tick(d)
       /\ ticks' = ticks + 1
       /\ UNCHANGED <<voting, client, detail, comments, started, pre, tally>>

SpecSeq == Init /\ [][NextSeq]_vars

\* SpecFault: requests of both routes one at a time, pre.failed telling
\* whether a storage call of the request was rejected
NextFault ==
    \/ /\ started < FaultReqLimit /\ Quiet
       /\ \E r \in Slots, t \in Tokens, w \in ProfileIds, l \in ProfileIds :
             /\ BattleRequest(r, t, w, l)
             /\ pre' = [profiles |-> profiles, votes |-> votes, now |-> now,
                        call |-> <<req'[r].userId, req'[r].winnerId,
                                   req'[r].loserId>>,
                        failed |-> FALSE]
       /\ Counted
       /\ UNCHANGED <<voting, client, detail, comments, ticks, tally>>
    \/ /\ started < FaultReqLimit /\ Quiet
       /\ \E r \in Slots, p \in ProfileIds, t \in VoteTypes :
             /\ ProfileRequest(r, p, t)
             /\ pre' = [profiles |-> profiles, votes |-> votes, now |-> now,
                        call |-> <<p, t>>, failed |-> FALSE]
       /\ Counted
       /\ UNCHANGED <<voting, client, detail, comments, ticks, tally>>
    \/ \E r \in Slots : BattleFindExisting(r) /\ Internal
    \/ \E r \in Slots : BattleSaveVote(r) /\ Internal
    \/ \E r \in Slots : BattleFindWinner(r) /\ Internal
    \/ \E r \in Slots : BattleFindLoser(r) /\ Internal
    \/ \E r \in Slots : BattleSaveWinner(r) /\ Internal
    \/ \E r \in Slots : BattleSaveLoser(r) /\ Internal
    \/ \E r \in Slots : BattleStorageError(r) /\ Failed
    \/ \E r \in Slots : ProfileFind(r) /\ Internal
    \/ \E r \in Slots :
          ProfileSave(r) /\ Tallied(r)
          /\ UNCHANGED <<voting, client, detail, comments, started, ticks, pre>>
    \/ \E r \in Slots : ProfileStorageError(r) /\ Failed

SpecFault == Init /\ [][NextFault]_vars

\* SpecPct: one profile vote on a profile seeded with any counts; pre
\* remembers the stored profiles and the call
InitPct ==
    /\ \E c \in 0..MaxSeed, j \in 0..MaxSeed :
          profiles = [p \in Profiles |->
                        IF p = "A" THEN NewProfile(c, j) ELSE NewProfile(0, 0)]
    /\ InitDb

NextPct ==
    \/ /\ started < 1
       /\ \E t \in VoteTypes :
             /\ ProfileRequest("r1", "A", t)
             /\ pre' = [NoPre EXCEPT !.profiles = profiles,
                                     !.call = <<"A", t>>]
       /\ Counted
       /\ UNCHANGED <<voting, client, detail, comments, ticks, tally>>
    \/ ProfileFind("r1") /\ Internal
    \/ ProfileSave("r1") /\ Internal

SpecPct == InitPct /\ [][NextPct]_vars

\* SpecBoard: battle votes of one voter one at a time, profile B seeded
\* with any score, the clock advancing by a day, a week or a month between
\* them, and in the end leaderboard requests; the storage calls of the
\* votes succeed, those of the leaderboard may fail
BoardTickSteps == {Window("day"), Window("week"), Window("month")}
NoBoardYet == \A r \in Slots : req[r].route # "leaderboard"

InitBoard ==
    /\ \E x \in 0..MaxSeedScore :
          profiles = [p \in Profiles |->
                        IF p = "B" THEN [NewProfile(0, 0) EXCEPT !.score = x]
                                   ELSE NewProfile(0, 0)]
    /\ InitDb

NextBoard ==
    \/ /\ started < BoardReqLimit /\ Quiet /\ NoBoardYet
       /\ \E r \in Slots, w \in Profiles, l \in Profiles :
             BattleRequest(r, "u1", w, l)
       /\ Counted
       /\ UNCHANGED <<voting, client, detail, comments, ticks, pre, tally>>
    \/ \E r \in Slots : BattleFindExisting(r) /\ Internal
    \/ \E r \in Slots : BattleSaveVote(r) /\ Internal
    \/ \E r \in Slots : BattleFindWinner(r) /\ Internal
    \/ \E r \in Slots : BattleFindLoser(r) /\ Internal
    \/ \E r \in Slots : BattleSaveWinner(r) /\ Internal
    \/ \E r \in Slots : BattleSaveLoser(r) /\ Internal
    \/ /\ ticks < MaxBoardTicks /\ Quiet /\ NoBoardYet
       /\ \E d \in BoardTickSteps : Tick(d)
       /\ ticks' = ticks + 1
       /\ UNCHANGED <<voting, client, detail, comments, started, pre, tally>>
    \/ /\ Quiet
       /\ \E r \in Slots, period \in Periods, limit \in Limits :
             /\ LeaderboardRequest(r, period, limit)
             /\ pre' = [NoPre EXCEPT !.now = now, !.call = <<period, limit>>]
       /\ UNCHANGED <<voting, client, detail, comments, started, ticks, tally>>
    \/ \E r \in Slots : LeaderboardFind(r) /\ Internal
    \/ \E r \in Slots : LeaderboardStorageError(r) /\ Internal

SpecBoard == InitBoard /\ [][NextBoard]_vars

\* SpecClient: the voting page against the server, the profiles seeded with
\* any votes; pre.call remembers the counters handleVote found
Server == UNCHANGED <<voting, client, detail, comments, started, ticks, pre, tally>>
Page == UNCHANGED <<detail, comments, started, ticks, pre, tally>>

InitClient ==
    /\ profiles \in [Profiles -> {[NewProfile(0, 0) EXCEPT !.votes = x] :
                                    x \in 0..MaxSeedVotes}]
    /\ InitDb

NextClient ==
    \/ (\E t \in ClientTokens : connectWallet(t)) /\ Page
    \/ disconnectWallet /\ Page
    \/ (\E r \in Slots : initializeMainApp(r)) /\ Page
    \/ (\E r \in Slots : voteDelayElapsed(r)) /\ Page
    \/ (\E r \in Slots : loadNewProfilesReturn(r)) /\ Page
    \/ /\ started < ClientVoteLimit
       /\ \E r \in Slots, isLeft \in BOOLEAN : handleVote(r, isLeft)
       /\ pre' = [NoPre EXCEPT !.call = <<voting.leftVotes, voting.rightVotes,
                                          voting.totalVotes>>]
       /\ Counted
       /\ UNCHANGED <<detail, comments, ticks, tally>>
    \/ (\E r \in Slots : handleVoteReturn(r)) /\ Page
    \/ \E r \in Slots : ProfilesSample(r) /\ Server
    \/ \E r \in Slots : ProfilesStorageError(r) /\ Server
    \/ \E r \in Slots : BattleFindExisting(r) /\ Server
    \/ \E r \in Slots : BattleSaveVote(r) /\ Server
    \/ \E r \in Slots : BattleFindWinner(r) /\ Server
    \/ \E r \in Slots : BattleFindLoser(r) /\ Server
    \/ \E r \in Slots : BattleSaveWinner(r) /\ Server
    \/ \E r \in Slots : BattleSaveLoser(r) /\ Server
    \/ \E r \in Slots : BattleStorageError(r) /\ Server

SpecClient == InitClient /\ [][NextClient]_vars

\* SpecClientLive: every request is answered and every response and timer
\* is delivered to the page; the clicks of the user are not forced
Answer ==
    \/ (\E r \in Slots : voteDelayElapsed(r)) /\ Page
    \/ (\E r \in Slots : loadNewProfilesReturn(r)) /\ Page
    \/ (\E r \in Slots : handleVoteReturn(r)) /\ Page
    \/ \E r \in Slots : (ProfilesSample(r) \/ ProfilesStorageError(r)) /\ Server
    \/ \E r \in Slots :
          /\ \/ BattleFindExisting(r) \/ BattleSaveVote(r)
             \/ BattleFindWinner(r) \/ BattleFindLoser(r)
             \/ BattleSaveWinner(r) \/ BattleSaveLoser(r)
             \/ BattleStorageError(r)
          /\ Server

SpecClientLive == SpecClient /\ WF_vars(Answer)

\* SpecLike: like requests on the comment one at a time; pre.call lists the
\* toggles that were stored, each with the comment before and after it
LikeStep == UNCHANGED <<voting, client, detail, started, ticks, pre, tally>>

NextLike ==
    \/ /\ started < LikeReqLimit /\ Quiet
       /\ \E r \in Slots, t \in Tokens, c \in CommentIds : LikeRequest(r, t, c)
       /\ Counted
       /\ UNCHANGED <<voting, client, detail, ticks, pre, tally>>
    \/ \E r \in Slots : LikeFind(r) /\ LikeStep
    \/ \E r \in Slots :
          /\ LikeSave(r)
          /\ pre' = [pre EXCEPT !.call =
                       Append(@, [user |-> req[r].userId,
                                  before |-> comments[req[r].commentId],
                                  after |-> comments'[req[r].commentId]])]
          /\ UNCHANGED <<voting, client, detail, started, ticks, tally>>
    \/ \E r \in Slots : LikeStorageError(r) /\ LikeStep

SpecLike == Init /\ [][NextLike]_vars

\* SpecDetail: the detail page showing profile A seeded with any counts and
\* recomputing the percentages from the counts it shows
InitDetail ==
    /\ \E c \in 0..MaxCount, j \in 0..MaxCount :
          profiles = [p \in Profiles |->
                        IF p = "A" THEN NewProfile(c, j) ELSE NewProfile(0, 0)]
    /\ InitDb

NextDetail ==
    \/ /\ started < 1
       /\ showProfileDetail("A")
       /\ Counted
       /\ UNCHANGED <<ticks, pre, tally>>
    \/ /\ started = 1 /\ ~detail.recomputed
       /\ updateVotePercentages
       /\ UNCHANGED <<started, ticks, pre, tally>>

SpecDetail == InitDetail /\ [][NextDetail]_vars

\* ------------------------------------------------------------------ claims
Done(r) == req[r].pc = "done"
Accepted(r) == Done(r) /\ req[r].res.status = 200

\* the request pre describes is a battle vote that passed authMiddleware
BattleCall(r) == req[r].route = "battle" /\ pre.call[1] \in Users

SamePair(v, winnerId, loserId) ==
    {v.winnerId, v.loserId} = {winnerId, loserId}

\* a record of the voter for the unordered pair, at most 60 s before t
RecentDuplicate(records, t, userId, winnerId, loserId) ==
    \E i \in 1..Len(records) :
        /\ records[i].voterId = userId
        /\ SamePair(records[i], winnerId, loserId)
        /\ t - records[i].timestamp <= Seconds(DedupWindowMs)

WinsRecorded(p) == Cardinality({i \in 1..Len(votes) : votes[i].winnerId = p})
LossesRecorded(p) == Cardinality({i \in 1..Len(votes) : votes[i].loserId = p})

\* C1: two battle votes of different voters for the same winner, both
\* answered with success, leave the winner's votes exactly 2 above its
\* initial value, whatever the interleaving of their reads and writes.
C1_NoLostUpdate ==
    ( /\ started = 2
      /\ \A r \in Slots : Accepted(r) /\ req[r].route = "battle"
      /\ Len(votes) = 2
      /\ votes[1].winnerId = votes[2].winnerId
      /\ votes[1].voterId # votes[2].voterId )
    => profiles[votes[1].winnerId].votes = 2

\* C2: a battle vote whose voter has a record for the same unordered pair
\* at most 60 s old never gets past the duplicate check: it is answered
\* 400 "Already voted for this battle" (500 only when the duplicate query
\* itself fails) and changes neither the records nor the counters.
C2_DuplicateRejected ==
    \A r \in Slots :
        ( /\ BattleCall(r)
          /\ RecentDuplicate(pre.votes, pre.now,
                             pre.call[1], pre.call[2], pre.call[3]) )
        => \/ req[r].pc = "findExisting"
           \/ /\ Done(r)
              /\ req[r].res.status \in {400, 500}
              /\ req[r].res.status = 400
                   => req[r].res.error = "Already voted for this battle"
              /\ votes = pre.votes
              /\ profiles = pre.profiles

\* the vote (V, A, B) followed 30 s later by (V, B, A) is answered 400
C2_Witness ==
    \E r \in Slots :
        /\ BattleCall(r) /\ Done(r) /\ req[r].res.status = 400
        /\ pre.call[2] # pre.call[3]
        /\ \E i \in 1..Len(pre.votes) :
              /\ pre.votes[i].voterId = pre.call[1]
              /\ pre.votes[i].winnerId = pre.call[3]
              /\ pre.votes[i].loserId = pre.call[2]
              /\ pre.now - pre.votes[i].timestamp = 30

\* C3: whenever no request is in flight, the records naming a profile as
\* winner (loser) are as many as its battleWins (battleLosses) gained.
C3_RecordAndCountersOneUnit ==
    Quiet => \A p \in Profiles :
                /\ WinsRecorded(p) = profiles[p].battleWins
                /\ LossesRecorded(p) = profiles[p].battleLosses

\* C4: the two percentages of a profile-vote response sum to exactly 100.
C4_PercentagesSumTo100 ==
    \A r \in Slots :
        (req[r].route = "profile" /\ Accepted(r))
        => req[r].res.data[3] + req[r].res.data[4] = 100

\* a response for counts whose raw percentages both end in one half
C4_Witness ==
    \E r \in Slots :
        /\ req[r].route = "profile" /\ Accepted(r)
        /\ LET c == req[r].res.data[1]
               t == req[r].res.data[1] + req[r].res.data[2]
           IN /\ t > 0
              /\ (200 * c) % t = 0
              /\ ((200 * c) \div t) % 2 = 1
        /\ req[r].res.data[3] + req[r].res.data[4] = 100

\* round(n / d), halves rounded up, in exact arithmetic
RoundHalfUp(n, d) == (2 * n + d) \div (2 * d)

ClaimedPercentages(chadVotes, jeetVotes) ==
    LET total == chadVotes + jeetVotes
        c == RoundHalfUp(100 * chadVotes, total)
        j == RoundHalfUp(100 * jeetVotes, total)
    IN IF c + j = 100 THEN <<c, j>>
       ELSE IF chadVotes >= jeetVotes THEN <<100 - j, j>>
       ELSE <<c, 100 - c>>

\* C5: for a positive total the response carries round(100*chadVotes/total)
\* and round(100*jeetVotes/total), the side with the larger count (chad on
\* equal counts) replaced by 100 minus the other when they do not sum to 100.
C5_PercentagesAsSpecified ==
    \A r \in Slots :
        ( /\ req[r].route = "profile" /\ Accepted(r)
          /\ req[r].res.data[1] + req[r].res.data[2] > 0 )
        => <<req[r].res.data[3], req[r].res.data[4]>> =
              ClaimedPercentages(req[r].res.data[1], req[r].res.data[2])

\* C6: no stored vote record has its winner equal to its loser.
C6_WinnerDiffersFromLoser ==
    \A i \in 1..Len(votes) : votes[i].winnerId # votes[i].loserId

\* C7: a battle vote naming an unknown winner or loser fails, and at no
\* point of its handling is a record appended or a profile counter changed.
C7_UnknownProfileRejected ==
    \A r \in Slots :
        ( /\ BattleCall(r)
          /\ pre.call[2] \notin Profiles \/ pre.call[3] \notin Profiles )
        => /\ Done(r) => req[r].res.status # 200
           /\ votes = pre.votes
           /\ profiles = pre.profiles

\* C8: an accepted battle vote (voter, W, L) running alone appends exactly
\* the record (voter, W, L) and adds 1 to W.votes, W.score, W.battleWins and
\* to L.battleLosses.
C8_AcceptedBattleVoteEffect ==
    \A r \in Slots :
        (BattleCall(r) /\ Accepted(r))
        => LET w == pre.call[2]
               l == pre.call[3]
           IN /\ votes = Append(pre.votes,
                                [voterId |-> pre.call[1], winnerId |-> w,
                                 loserId |-> l, timestamp |-> pre.now])
              /\ profiles[w].votes = pre.profiles[w].votes + 1
              /\ profiles[w].score = pre.profiles[w].score + 1
              /\ profiles[w].battleWins = pre.profiles[w].battleWins + 1
              /\ profiles[l].battleLosses = pre.profiles[l].battleLosses + 1

\* an accepted vote on a profile that already holds votes from an earlier one
C8_Witness ==
    \E r \in Slots :
        /\ BattleCall(r) /\ Accepted(r)
        /\ pre.call[2] # pre.call[3]
        /\ pre.profiles[pre.call[2]].votes = 1
        /\ profiles[pre.call[2]].votes = 2
        /\ Len(votes) = 2

\* C9: every counter is non-negative and neither chadVotes + jeetVotes nor
\* battleWins + battleLosses of a profile ever decreases in a step.
C9_CountersNeverShrink ==
    [][\A p \in Profiles :
          /\ profiles'[p].chadVotes + profiles'[p].jeetVotes
               >= profiles[p].chadVotes + profiles[p].jeetVotes
          /\ profiles'[p].battleWins + profiles'[p].battleLosses
               >= profiles[p].battleWins + profiles[p].battleLosses
          /\ profiles'[p].votes >= 0 /\ profiles'[p].score >= 0
          /\ profiles'[p].battleWins >= 0 /\ profiles'[p].battleLosses >= 0
          /\ profiles'[p].chadVotes >= 0 /\ profiles'[p].jeetVotes >= 0]_vars

\* C10: a chad (jeet) vote answered with success adds exactly 1 to chadVotes
\* (jeetVotes) of its profile and leaves the other counter alone; successive
\* votes are never rejected as repeats, so n of them add n.
C10_ProfileVoteCountsOnce ==
    /\ \A r \in Slots :
          (req[r].route = "profile" /\ Accepted(r) /\ pre.call[2] # "other")
          => LET p == pre.call[1]
                 chad == IF pre.call[2] = "chad" THEN 1 ELSE 0
             IN /\ profiles[p].chadVotes = pre.profiles[p].chadVotes + chad
                /\ profiles[p].jeetVotes =
                      pre.profiles[p].jeetVotes + (1 - chad)
    /\ \A r \in Slots :
          (req[r].route = "profile" /\ Done(r) /\ pre.call[1] \in Profiles)
          => req[r].res.status \in {200, 500}
    /\ \A p \in Profiles :
          /\ profiles[p].chadVotes = tally[p].chad
          /\ profiles[p].jeetVotes = tally[p].jeet

\* two successive chad votes on the same profile, both counted
C10_Witness ==
    /\ Accepted("r1") /\ req["r1"].route = "profile"
    /\ pre.call = <<"A", "chad">>
    /\ tally["A"].chad = 2
    /\ profiles["A"].chadVotes = 2

\* C11: across profile votes, overlapping ones included, neither chadVotes
\* nor jeetVotes of a profile ever decreases in a step, and neither is ever
\* negative.
C11_ChadJeetMonotone ==
    [][\A p \in Profiles :
          /\ profiles'[p].chadVotes >= profiles[p].chadVotes
          /\ profiles'[p].jeetVotes >= profiles[p].jeetVotes
          /\ profiles'[p].chadVotes >= 0
          /\ profiles'[p].jeetVotes >= 0]_vars

\* C17: a profile-vote response whose counts are all on one side carries
\* 100 for that side and 0 for the other, and a chad vote on a profile with
\* no votes is answered {chadVotes 1, jeetVotes 0, 100, 0}.
C17_OneSidedIsHundredZero ==
    [][\A r \in Slots :
          ( /\ req[r].pc = "saveProfile"
            /\ req'[r].pc = "done" /\ req'[r].res.status = 200 )
          => LET d == req'[r].res.data
             IN /\ (d[1] > 0 /\ d[2] = 0) => (d[3] = 100 /\ d[4] = 0)
                /\ (d[2] > 0 /\ d[1] = 0) => (d[3] = 0 /\ d[4] = 100)
                /\ ( /\ req[r].voteType = "chad"
                     /\ profiles[req[r].profileId].chadVotes = 0
                     /\ profiles[req[r].profileId].jeetVotes = 0 )
                   => d = <<1, 0, 100, 0>>]_vars

\* the first vote of a profile, a chad vote, answered 1 / 0 / 100 / 0
C17_Witness ==
    /\ Accepted("r1") /\ req["r1"].route = "profile"
    /\ req["r1"].res.data = <<1, 0, 100, 0>>
    /\ profiles["A"].chadVotes = 1 /\ profiles["A"].jeetVotes = 0

\* C18: a profile-vote response with equal positive counts carries 50 / 50,
\* the rounded values already summing to 100 so that the correction does not
\* apply, and a response with no votes at all carries the default 50 / 50.
C18_EqualCountsAreFiftyFifty ==
    \A r \in Slots :
        (req[r].route = "profile" /\ Accepted(r))
        => LET d == req[r].res.data
           IN /\ (d[1] = d[2] /\ d[1] > 0)
                 => /\ d[3] = 50 /\ d[4] = 50
                    /\ MathRoundPercent(d[1], d[1] + d[2])
                         + MathRoundPercent(d[2], d[1] + d[2]) = 100
              /\ (d[1] + d[2] = 0) => (d[3] = 50 /\ d[4] = 50)

\* a vote that brings the two counts level at a positive value
C18_Witness ==
    /\ Accepted("r1") /\ req["r1"].route = "profile"
    /\ req["r1"].res.data[1] = req["r1"].res.data[2]
    /\ req["r1"].res.data[1] > 1
    /\ profiles["A"].chadVotes = profiles["A"].jeetVotes
    /\ req["r1"].res.data[3] = 50

\* a vote of another type on a profile without votes: the default applies
C18_DefaultReached ==
    /\ Accepted("r1") /\ req["r1"].route = "profile"
    /\ req["r1"].res.data = <<0, 0, 50, 50>>

\* C19: the vote records only grow: a step leaves them alone or appends the
\* one record of the request that executes its insert, no stored record is
\* ever changed or removed, and a battle vote is answered with success only
\* after its record was appended.
C19_RecordsAppendOnly ==
    [][/\ Len(votes') \in {Len(votes), Len(votes) + 1}
       /\ SubSeq(votes', 1, Len(votes)) = votes
       /\ votes' # votes
            => \E r \in Slots : /\ req[r].pc = "saveVote"
                                /\ req'[r].pc = "findWinner"
                                /\ votes' = Append(votes, req[r].vote[1])
       /\ \A r \in Slots :
             (req[r].pc = "saveVote" /\ req'[r].pc = "findWinner")
             => votes' = Append(votes, req[r].vote[1])
       /\ \A r \in Slots :
             ( /\ InFlight(r) /\ req[r].route = "battle"
               /\ req'[r].pc = "done" /\ req'[r].res.status = 200 )
             => /\ req[r].pc = "saveLoser"
                /\ \E i \in 1..Len(votes) : votes[i] = req[r].vote[1]]_vars

\* two accepted votes of different voters, each with its own record
C19_Witness ==
    /\ \A r \in Slots : Accepted(r) /\ req[r].route = "battle"
    /\ Len(votes) = 2
    /\ votes[1].voterId # votes[2].voterId
    /\ votes[1].winnerId # votes[1].loserId

\* two records of one voter for one unordered pair, at most 60 s apart
DuplicateRecords ==
    \E i, j \in 1..Len(votes) :
        /\ i < j
        /\ votes[i].voterId = votes[j].voterId
        /\ SamePair(votes[i], votes[j].winnerId, votes[j].loserId)
        /\ votes[j].timestamp - votes[i].timestamp <= Seconds(DedupWindowMs)

\* C20: the duplicate check and the insert are separate steps: two records
\* of one voter for one pair inside the window arise, and they arise only
\* when a second request of the voter was received while the first was still
\* in flight (requests handled one after the other use the first slot only).
C20_DuplicatesOnlyFromOverlap ==
    DuplicateRecords => req["r2"].pc # "idle"

\* both overlapping requests of one voter for one pair answered with success
C20_Witness ==
    /\ \A r \in Slots : Accepted(r) /\ req[r].route = "battle"
    /\ Len(votes) = 2
    /\ DuplicateRecords
    /\ votes[1].winnerId # votes[1].loserId

\* the ids of the entries of a response, in order
Ids(data) == [i \in 1..Len(data) |-> data[i].id]
IdRank(p) == IF p = "A" THEN 1 ELSE 2

\* C12: a leaderboard response holds at most limit entries, ordered by votes
\* descending, entries of equal votes by score descending, entries equal in
\* both by ascending id.
C12_LeaderboardOrdered ==
    \A r \in Slots :
        (req[r].route = "leaderboard" /\ Accepted(r))
        => LET d == req[r].res.data
           IN /\ Len(d) <= pre.call[2]
              /\ \A i, j \in 1..Len(d) :
                    i < j =>
                      \/ d[i].votes > d[j].votes
                      \/ d[i].votes = d[j].votes /\ d[i].score > d[j].score
                      \/ /\ d[i].votes = d[j].votes /\ d[i].score = d[j].score
                         /\ IdRank(d[i].id) < IdRank(d[j].id)

\* some vote record names p as winner with its timestamp in the period's
\* window ending at t, the window of "all" being unbounded
WonInWindow(p, period, t) ==
    \E i \in 1..Len(votes) :
        /\ votes[i].winnerId = p
        /\ period = "all" \/ votes[i].timestamp >= t - Window(period)

\* C13: for every period, a profile is in the leaderboard response (the
\* limit not cutting it short) exactly if some vote record names it as
\* winner with a timestamp inside the period's window.
C13_InLeaderboardIffWonInWindow ==
    \A r \in Slots :
        ( /\ req[r].route = "leaderboard" /\ Accepted(r)
          /\ pre.call[2] >= Cardinality(Profiles) )
        => \A p \in Profiles :
              (\E i \in 1..Len(req[r].res.data) : req[r].res.data[i].id = p)
              <=> WonInWindow(p, pre.call[1], pre.now)

C15_FailedVoteRestoresCounters ==
    [][\A r \in Slots :
          ( /\ r \in client.submits /\ r \notin client'.submits
            /\ req[r].res.status # 200 )
          => <<voting'.leftVotes, voting'.rightVotes, voting'.totalVotes>>
                = pre.call]_vars

\* C16: a battle or profile vote one of whose storage calls was rejected is
\* answered 500 with the route's error, never with success; a vote answered
\* with success had no call rejected and its writes are all stored.
C16_StorageFailureIsAnError ==
    \A r \in Slots :
        /\ (Done(r) /\ pre.failed)
           => /\ req[r].res.status = 500
              /\ req[r].res.error = IF req[r].route = "battle"
                                      THEN "Failed to submit vote"
                                      ELSE "Failed to record vote"
        /\ (Accepted(r) /\ req[r].route = "battle")
           => /\ ~pre.failed
              /\ Len(votes) = Len(pre.votes) + 1
              /\ profiles[pre.call[2]].votes > pre.profiles[pre.call[2]].votes
              /\ profiles[pre.call[3]].battleLosses
                   > pre.profiles[pre.call[3]].battleLosses
        /\ (Accepted(r) /\ req[r].route = "profile" /\ pre.call[2] # "other")
           => /\ ~pre.failed
              /\ profiles[pre.call[1]] # pre.profiles[pre.call[1]]

\* the save of the winner rejected after the record was stored: answered 500
C16_Witness ==
    \E r \in Slots :
        /\ BattleCall(r) /\ Done(r) /\ pre.failed
        /\ req[r].res.status = 500
        /\ Len(votes) = Len(pre.votes) + 1
        /\ profiles = pre.profiles

\* C26: for counts below 1000 the percentages the page recomputes from the
\* counts it shows are the percentages the profile-vote route computes for
\* these counts.
C26_ClientPercentagesAsServer ==
    detail.recomputed
    => <<detail.chadPercent, detail.jeetPercent>> =
          Percentages(profiles["A"].chadVotes, profiles["A"].jeetVotes)

\* counts whose rounded percentages sum to 101, the smaller count on chad
C26_Witness ==
    /\ detail.recomputed
    /\ profiles["A"].chadVotes = 3 /\ profiles["A"].jeetVotes = 5
    /\ detail.chadPercent = 38 /\ detail.jeetPercent = 62

\* the users of a likedBy array
Likers(comment) == {comment.likedBy[i] : i \in 1..Len(comment.likedBy)}

C21_OnlyDuplicatesRejected ==
    \A r \in Slots :
        ( /\ BattleCall(r) /\ Done(r)
          /\ pre.call[2] \in Profiles /\ pre.call[3] \in Profiles
          /\ pre.call[2] # pre.call[3]
          /\ ~RecentDuplicate(pre.votes, pre.now,
                              pre.call[1], pre.call[2], pre.call[3]) )
        => req[r].res.status \in {200, 500}

\* a vote accepted although the voter has a record for the pair, 90 s old
C21_Witness ==
    \E r \in Slots :
        /\ BattleCall(r) /\ Accepted(r)
        /\ pre.call[2] # pre.call[3]
        /\ Len(pre.votes) = 1
        /\ pre.votes[1].voterId = pre.call[1]
        /\ SamePair(pre.votes[1], pre.call[2], pre.call[3])
        /\ pre.now - pre.votes[1].timestamp = 90

\* C22: a battle-vote request whose token names no stored user is answered
\* 401 "Please authenticate" at once and changes neither the records nor the
\* profiles; every request inside the vote handler carries a stored user.
C22_UnauthenticatedRejected ==
    \A r \in Slots :
        /\ (req[r].route = "battle" /\ InFlight(r)) => req[r].userId \in Users
        /\ (req[r].route = "battle" /\ pre.call[1] \notin Users)
           => /\ Done(r)
              /\ req[r].res.status = 401
              /\ req[r].res.error = "Please authenticate"
              /\ votes = pre.votes
              /\ profiles = pre.profiles

\* a request without a valid token after an accepted vote
C22_Witness ==
    \E r \in Slots :
        /\ req[r].route = "battle" /\ Done(r)
        /\ req[r].res.status = 401
        /\ pre.call[1] \notin Users
        /\ Len(votes) = 1
        /\ \E p \in Profiles : profiles[p].votes = 1

\* C23: with battle votes handled one at a time, votes, score and battleWins
\* of every profile have grown by the same amount since the initial state.
C23_WinnerCountersMoveTogether ==
    \A p \in Profiles :
        /\ profiles[p].votes = profiles[p].score
        /\ profiles[p].score = profiles[p].battleWins

\* a profile that won two battles
C23_Witness ==
    /\ Quiet
    /\ profiles["A"].votes = 2
    /\ profiles["A"].score = 2
    /\ profiles["A"].battleWins = 2

\* the counters a battle vote may change
BattleCounters(p) ==
    <<p.votes, p.score, p.battleWins, p.battleLosses>>

\* C24: an accepted battle vote for (W, L) changes no profile other than W
\* and L, no chadVotes or jeetVotes, and for W # L neither L.votes, L.score,
\* L.battleWins nor W.battleLosses; a profile vote changes no battle counter
\* and no vote record.
C24_VotesChangeNothingElse ==
    \A r \in Slots :
        /\ (BattleCall(r) /\ Accepted(r))
           => LET w == pre.call[2]
                  l == pre.call[3]
              IN /\ \A p \in Profiles \ {w, l} :
                        profiles[p] = pre.profiles[p]
                 /\ \A p \in Profiles :
                        /\ profiles[p].chadVotes = pre.profiles[p].chadVotes
                        /\ profiles[p].jeetVotes = pre.profiles[p].jeetVotes
                 /\ w # l
                    => /\ profiles[l].votes = pre.profiles[l].votes
                       /\ profiles[l].score = pre.profiles[l].score
                       /\ profiles[l].battleWins = pre.profiles[l].battleWins
                       /\ profiles[w].battleLosses
                            = pre.profiles[w].battleLosses
        /\ (req[r].route = "profile" /\ req[r].pc # "idle")
           => /\ votes = pre.votes
              /\ \A p \in Profiles :
                    BattleCounters(profiles[p]) = BattleCounters(pre.profiles[p])

\* an accepted battle vote for (A, B) after B won a battle against A
C24_Witness ==
    \E r \in Slots :
        /\ BattleCall(r) /\ Accepted(r)
        /\ pre.call[2] = "A" /\ pre.call[3] = "B"
        /\ pre.profiles["B"].votes = 1
        /\ profiles["B"].votes = 1
        /\ profiles["A"].battleLosses = 1

\* C25: a profile vote on a stored profile with a voteType other than chad
\* and jeet leaves the stored counts alone and is answered with success,
\* carrying these counts and percentages of them that sum to 100.
C25_OtherVoteTypeSucceedsUnchanged ==
    \A r \in Slots :
        (req[r].route = "profile" /\ pre.call = <<"A", "other">>)
        => /\ profiles = pre.profiles
           /\ Done(r)
              => LET d == req[r].res.data
                     total == pre.profiles["A"].chadVotes
                                + pre.profiles["A"].jeetVotes
                 IN /\ req[r].res.status = 200
                    /\ d[1] = pre.profiles["A"].chadVotes
                    /\ d[2] = pre.profiles["A"].jeetVotes
                    /\ d[3] + d[4] = 100
                    /\ total > 0
                       => /\ d[3] * total - 100 * d[1] <= total
                          /\ 100 * d[1] - d[3] * total <= total

\* a vote of another type on a profile with 3 chad votes and 1 jeet vote
C25_Witness ==
    /\ Accepted("r1") /\ req["r1"].route = "profile"
    /\ pre.call = <<"A", "other">>
    /\ req["r1"].res.data = <<3, 1, 75, 25>>

\* C27: the page has at most one battle-vote request in flight: a request
\* is submitted only with the wallet connected, hasVoted false and no other
\* submission pending, and hasVoted is true from then on.
C27_OneVoteInFlight ==
    [][/\ Cardinality(client'.submits) <= 1
       /\ \A r \in Slots :
             (r \notin client.submits /\ r \in client'.submits)
             => /\ client.isConnected
                /\ ~voting.hasVoted
                /\ client.submits = {}
                /\ voting'.hasVoted
       /\ client'.submits # {} => voting'.hasVoted]_vars

\* the second vote of the page on its way while the server handles it
C27_Witness ==
    \E r \in Slots :
        /\ client.submits = {r}
        /\ InFlight(r) /\ req[r].route = "battle"
        /\ voting.hasVoted
        /\ voting.userStreak = 1

\* C28: once the page has submitted a battle vote and every request is
\* answered, hasVoted eventually is false again.
C28_VotingPossibleAgain ==
    (client.submits # {}) ~> ~voting.hasVoted

\* the profiles a leaderboard request of the period received at time t
\* finds in the current state
FoundFor(period, t) ==
    Matching(IF period = "all" THEN << >> ELSE <<t - Window(period)>>)

\* C30: for one state and time and a limit of at least the number of
\* profiles, every profile returned for day is found for week, every profile
\* returned for week is found for month, and every profile returned for
\* month is found for all.
C30_WindowsNested ==
    \A r \in Slots :
        ( /\ req[r].route = "leaderboard" /\ Accepted(r)
          /\ pre.call[2] >= Cardinality(Profiles) )
        => LET returned == {req[r].res.data[i].id :
                              i \in 1..Len(req[r].res.data)}
               period == pre.call[1]
           IN /\ returned = FoundFor(period, pre.now)
              /\ period = "day" => returned \subseteq FoundFor("week", pre.now)
              /\ period = "week"
                 => returned \subseteq FoundFor("month", pre.now)
              /\ period = "month" => returned \subseteq FoundFor("all", pre.now)

\* a day response with one profile while week finds both and month too
C30_Witness ==
    \E r \in Slots :
        /\ req[r].route = "leaderboard" /\ Accepted(r)
        /\ pre.call = <<"day", 50>>
        /\ Len(req[r].res.data) = 1
        /\ FoundFor("week", pre.now) = Profiles
        /\ FoundFor("month", pre.now) = Profiles

====
